---- MODULE Spec2Model ----
(***************************************************************************)
(* Model of src/kiro/model/common/types.rs: the auxiliary value types of   *)
(* the Kiro API response model, their constructors and with-X builders,    *)
(* the ContentSpan accessors, and the serde (de)serialization that the     *)
(* derive attributes of each struct generate.                              *)
(*                                                                         *)
(* In-memory values are records keyed by the Rust (snake_case) field name. *)
(* An Option<T> is a sequence: <<>> is None and <<x>> is Some(x).          *)
(* An f64 is a record [cls, m]: cls is "finite" or "inf" (any non-finite   *)
(* value); m is the value in hundredths when finite and 0 otherwise.       *)
(* A JSON value is a record tagged by t: "null", "string", "int" (a        *)
(* serde_json Number holding an integer), "float" (a Number holding a      *)
(* finite f64, in hundredths) or "object" (o: a function from keys).       *)
(***************************************************************************)
EXTENDS Integers, Sequences, FiniteSets, TLC

VARIABLES ty, val, base, origin, calls, ser, back, de, ret

vars == <<ty, val, base, origin, calls, ser, back, de, ret>>

(* ------------------------------ bounds -------------------------------- *)

\* longest chain of with-X calls applied to one instance
MaxCalls == 3

\* span positions are drawn from -SpanBound..SpanBound and the i32 extremes
SpanBound == 1

(* ---------------------------- primitives ------------------------------ *)

I32_MAX == 2147483647

I32_MIN == -I32_MAX - 1

\* whether a - b lies in the i32 range, decided inside that range
SubFits(a, b) == IF b >= 0 THEN a >= I32_MIN + b ELSE a <= I32_MAX + b

\* a - b wrapped to 32 bits (two's complement): a - b itself when it fits,
\* a - b - 2^32 on overflow above, a - b + 2^32 on overflow below, each
\* computed inside the i32 range
WrappingSub(a, b) ==
    IF SubFits(a, b) THEN a - b
    ELSE IF b < 0 THEN ((a - I32_MAX - 1) - b) + I32_MIN
    ELSE ((a - I32_MIN) - b) + I32_MAX + 1

I32Values == (-SpanBound .. SpanBound) \cup {I32_MIN, I32_MAX}

Strs == {"a", "b"}

Finite(m) == [cls |-> "finite", m |-> m]

Infinity == [cls |-> "inf", m |-> 0]

\* scores handed to with_score: 0.95 and a non-finite value
Scores == {Finite(95), Infinity}

None == <<>>

Some(x) == <<x>>

\* super::enums::UserIntent: an external closed enumeration.  ImproveCode is
\* the member the tests use; ShowExamples stands for any other member.
UserIntents == {"ImproveCode", "ShowExamples"}

UserIntentToken(i) ==
    CASE i = "ImproveCode" -> "IMPROVE_CODE"
      [] i = "ShowExamples" -> "SHOW_EXAMPLES"

(* ------------------------------ schema -------------------------------- *)

Structs == {"ContentSpan", "SupplementaryWebLink", "MostRelevantMissedAlternative",
            "Reference", "FollowupPrompt", "ProgrammingLanguage",
            "Customization", "CodeQuery"}

\* the fields of each struct, with the type inside Option<> and whether the
\* field is an Option
Req(t) == [type |-> t, opt |-> FALSE]

Opt(t) == [type |-> t, opt |-> TRUE]

ContentSpanFields == [start |-> Req("i32"), end |-> Req("i32")]

SupplementaryWebLinkFields ==
    [url |-> Req("String"), title |-> Opt("String"),
     snippet |-> Opt("String"), score |-> Opt("f64")]

MostRelevantMissedAlternativeFields ==
    [url |-> Req("String"), license_name |-> Opt("String"),
     repository |-> Opt("String")]

ReferenceFields ==
    [license_name |-> Opt("String"), repository |-> Opt("String"),
     url |-> Opt("String"), information |-> Opt("String"),
     recommendation_content_span |-> Opt("ContentSpan"),
     most_relevant_missed_alternative |-> Opt("MostRelevantMissedAlternative")]

FollowupPromptFields ==
    [content |-> Req("String"), user_intent |-> Opt("UserIntent")]

ProgrammingLanguageFields == [language_name |-> Req("String")]

CustomizationFields == [arn |-> Req("String"), name |-> Opt("String")]

CodeQueryFields ==
    [code_query_id |-> Req("String"),
     programming_language |-> Opt("ProgrammingLanguage"),
     user_input_message_id |-> Opt("String")]

Fields(s) ==
    CASE s = "ContentSpan" -> ContentSpanFields
      [] s = "SupplementaryWebLink" -> SupplementaryWebLinkFields
      [] s = "MostRelevantMissedAlternative" -> MostRelevantMissedAlternativeFields
      [] s = "Reference" -> ReferenceFields
      [] s = "FollowupPrompt" -> FollowupPromptFields
      [] s = "ProgrammingLanguage" -> ProgrammingLanguageFields
      [] s = "Customization" -> CustomizationFields
      [] s = "CodeQuery" -> CodeQueryFields

\* mutant: the rename_all attribute left off every struct
RenameAllForgotten(s) == "none"

\* #[serde(rename_all = "camelCase")] is on every struct but ContentSpan and
\* Customization
RenameAll(s) ==
    IF s \in {"ContentSpan", "Customization"} THEN "none" ELSE "camelCase"

\* mutant: the skip_serializing_if attribute left off every field
SkipSerializingNever(s, f) == FALSE

\* #[serde(skip_serializing_if = "Option::is_none")] is on every Option field
SkipSerializingIfNone(s, f) == Fields(s)[f].opt

(* --------------------------- field renaming --------------------------- *)

\* the words of a snake_case field name (split at '_')
SnakeWords(f) ==
    CASE f = "license_name" -> <<"license", "name">>
      [] f = "recommendation_content_span" -> <<"recommendation", "content", "span">>
      [] f = "most_relevant_missed_alternative" ->
             <<"most", "relevant", "missed", "alternative">>
      [] f = "user_intent" -> <<"user", "intent">>
      [] f = "language_name" -> <<"language", "name">>
      [] f = "code_query_id" -> <<"code", "query", "id">>
      [] f = "programming_language" -> <<"programming", "language">>
      [] f = "user_input_message_id" -> <<"user", "input", "message", "id">>
      [] OTHER -> <<f>>

\* a word with its first letter in upper case
Capitalize(w) ==
    CASE w = "name" -> "Name"
      [] w = "content" -> "Content"
      [] w = "span" -> "Span"
      [] w = "relevant" -> "Relevant"
      [] w = "missed" -> "Missed"
      [] w = "alternative" -> "Alternative"
      [] w = "intent" -> "Intent"
      [] w = "query" -> "Query"
      [] w = "id" -> "Id"
      [] w = "language" -> "Language"
      [] w = "input" -> "Input"
      [] w = "message" -> "Message"

RECURSIVE ConcatCapitalized(_)
ConcatCapitalized(ws) ==
    IF ws = <<>> THEN ""
    ELSE Capitalize(Head(ws)) \o ConcatCapitalized(Tail(ws))

\* serde's camelCase rule: the first word as it is, every later word
\* capitalized, the underscores dropped
CamelCase(f) ==
    LET ws == SnakeWords(f)
    IN  Head(ws) \o ConcatCapitalized(Tail(ws))

\* the key under which field f of struct s is written and looked up
WireKey(s, f) == IF RenameAll(s) = "camelCase" THEN CamelCase(f) ELSE f

(* -------------------------------- JSON -------------------------------- *)

JNull == [t |-> "null"]

JString(s) == [t |-> "string", s |-> s]

JInt(n) == [t |-> "int", wide |-> FALSE, n |-> n]

\* an integer literal outside the i32 range
JWideInt == [t |-> "int", wide |-> TRUE, n |-> 0]

JFloat(m) == [t |-> "float", m |-> m]

JObject(o) == [t |-> "object", o |-> o]

Ok(v) == [ok |-> TRUE, v |-> v]

Err(kind, at) == [ok |-> FALSE, kind |-> kind, at |-> at]

(* --------------------------- Serialize -------------------------------- *)

\* serde_json writes a finite f64 as a number and a non-finite one as null
SerializeF64(x) == IF x.cls = "finite" THEN JFloat(x.m) ELSE JNull

\* the fields of v that derive(Serialize) writes: all but the None fields
\* that carry skip_serializing_if = "Option::is_none"
EmittedFields(s, v) ==
    {f \in DOMAIN Fields(s) : ~(SkipSerializingIfNone(s, f) /\ v[f] = None)}

RECURSIVE ToValue(_, _)
\* derive(Serialize) of struct s, and the serialization of the leaf types
ToValue(t, v) ==
    CASE t = "String" -> JString(v)
      [] t = "i32" -> JInt(v)
      [] t = "f64" -> SerializeF64(v)
      [] t = "UserIntent" -> JString(UserIntentToken(v))
      [] OTHER ->
           LET emitted == EmittedFields(t, v)
               FieldValue(f) ==
                   IF Fields(t)[f].opt
                   THEN IF v[f] = None THEN JNull
                        ELSE ToValue(Fields(t)[f].type, v[f][1])
                   ELSE ToValue(Fields(t)[f].type, v[f])
           IN  JObject([k \in {WireKey(t, f) : f \in emitted} |->
                          FieldValue(CHOOSE f \in emitted : WireKey(t, f) = k)])

(* -------------------------- Deserialize ------------------------------- *)

DeserializeString(j) ==
    IF j.t = "string" THEN Ok(j.s) ELSE Err("invalid type", <<>>)

DeserializeI32(j) ==
    IF j.t = "int"
    THEN IF ~j.wide THEN Ok(j.n) ELSE Err("invalid value", <<>>)
    ELSE Err("invalid type", <<>>)

DeserializeF64(j) ==
    CASE j.t = "float" -> Ok(Finite(j.m))
      [] j.t = "int" /\ ~j.wide -> Ok(Finite(j.n * 100))
      [] j.t \notin {"float", "int"} -> Err("invalid type", <<>>)

DeserializeUserIntent(j) ==
    IF j.t = "string"
    THEN IF \E i \in UserIntents : UserIntentToken(i) = j.s
         THEN Ok(CHOOSE i \in UserIntents : UserIntentToken(i) = j.s)
         ELSE Err("unknown variant", <<>>)
    ELSE Err("invalid type", <<>>)

\* mutant: #[serde(default)] on every field, a missing one takes its default
MissingFieldDefaulted(s, f) ==
    IF Fields(s)[f].opt THEN Ok(None)
    ELSE Ok(IF Fields(s)[f].type = "i32" THEN 0 ELSE "")

\* what derive(Deserialize) does for a field whose key is not in the object:
\* an Option field is None, any other field is a missing-field error
MissingField(s, f) ==
    IF Fields(s)[f].opt THEN Ok(None) ELSE Err("missing field", <<f>>)

\* Option<T>::deserialize: null is None, anything else is Some(T) or T's error
UnwrapNull(j) == j.t = "null"

RECURSIVE FromValue(_, _)
\* derive(Deserialize) of struct s (from a JSON object; keys that are not
\* fields are ignored), and the deserialization of the leaf types.  When
\* several fields fail, serde reports the first in the payload's order; the
\* model reports one of them.
FromValue(t, j) ==
    CASE t = "String" -> DeserializeString(j)
      [] t = "i32" -> DeserializeI32(j)
      [] t = "f64" -> DeserializeF64(j)
      [] t = "UserIntent" -> DeserializeUserIntent(j)
      [] OTHER ->
           IF j.t # "object" THEN Err("invalid type", <<>>)
           ELSE
             LET Field(f) ==
                     LET k == WireKey(t, f)
                         d == Fields(t)[f]
                     IN  IF k \notin DOMAIN j.o THEN MissingField(t, f)
                         ELSE IF d.opt
                         THEN IF UnwrapNull(j.o[k]) THEN Ok(None)
                              ELSE LET r == FromValue(d.type, j.o[k])
                                   IN  IF r.ok THEN Ok(Some(r.v))
                                       ELSE Err(r.kind, <<f>> \o r.at)
                         ELSE LET r == FromValue(d.type, j.o[k])
                              IN  IF r.ok THEN r ELSE Err(r.kind, <<f>> \o r.at)
                 r == [f \in DOMAIN Fields(t) |-> Field(f)]
                 failed == {f \in DOMAIN Fields(t) : ~r[f].ok}
             IN  IF failed = {} THEN Ok([f \in DOMAIN Fields(t) |-> r[f].v])
                 ELSE r[CHOOSE f \in failed : TRUE]

(* ------------------------- ContentSpan -------------------------------- *)

ContentSpan_new(start, end) == [start |-> start, end |-> end]

\* self.end - self.start on i32.  When the difference does not fit, a build
\* with overflow checks panics and a build without them wraps: both outcomes.
len(self) ==
    IF SubFits(self.end, self.start)
    THEN {[op |-> "len", panicked |-> FALSE, n |-> self.end - self.start]}
    ELSE {[op |-> "len", panicked |-> TRUE, n |-> 0],
          [op |-> "len", panicked |-> FALSE,
           n |-> WrappingSub(self.end, self.start)]}

\* mutant: the comparison made strict
is_empty_strict(self) == self.start > self.end

is_empty(self) == self.start >= self.end

(* ----------------------- constructors, builders ----------------------- *)

\* mutant: the title initialized from the url instead of None
SupplementaryWebLink_new_titled(url) ==
    [url |-> url, title |-> Some(url), snippet |-> None, score |-> None]

SupplementaryWebLink_new(url) ==
    [url |-> url, title |-> None, snippet |-> None, score |-> None]

\* mutant: the link rebuilt from its url, dropping the other fields
with_title_rebuilding(self, title) ==
    [url |-> self.url, title |-> Some(title), snippet |-> None, score |-> None]

\* mutant: a title already present is kept
with_title_keeping(self, title) ==
    IF self.title # None THEN self ELSE [self EXCEPT !.title = Some(title)]

with_title(self, title) == [self EXCEPT !.title = Some(title)]

with_snippet(self, snippet) == [self EXCEPT !.snippet = Some(snippet)]

with_score(self, score) == [self EXCEPT !.score = Some(score)]

MostRelevantMissedAlternative_new(url) ==
    [url |-> url, license_name |-> None, repository |-> None]

Reference_new ==
    [license_name |-> None, repository |-> None, url |-> None,
     information |-> None, recommendation_content_span |-> None,
     most_relevant_missed_alternative |-> None]

\* mutant: the repository cleared along with setting the license
with_license_name_clobbering(self, name) ==
    [self EXCEPT !.license_name = Some(name), !.repository = None]

with_license_name(self, name) == [self EXCEPT !.license_name = Some(name)]

with_repository(self, repo) == [self EXCEPT !.repository = Some(repo)]

with_url(self, url) == [self EXCEPT !.url = Some(url)]

Reference_default == Reference_new

FollowupPrompt_new(content) == [content |-> content, user_intent |-> None]

with_user_intent(self, intent) == [self EXCEPT !.user_intent = Some(intent)]

ProgrammingLanguage_new(name) == [language_name |-> name]

CodeQuery_new(code_query_id) ==
    [code_query_id |-> code_query_id, programming_language |-> None,
     user_input_message_id |-> None]

with_programming_language(self, lang) ==
    [self EXCEPT !.programming_language = Some(lang)]

with_user_input_message_id(self, id) ==
    [self EXCEPT !.user_input_message_id = Some(id)]

(* --------------------------- wire payloads ---------------------------- *)

\* the object shape of each type on the wire: its keys and what each holds
WireShape(s) ==
    CASE s = "ContentSpan" -> [start |-> "i32", end |-> "i32"]
      [] s = "SupplementaryWebLink" ->
           [url |-> "String", title |-> "String", snippet |-> "String",
            score |-> "f64"]
      [] s = "MostRelevantMissedAlternative" ->
           [url |-> "String", licenseName |-> "String", repository |-> "String"]
      [] s = "Reference" ->
           [licenseName |-> "String", repository |-> "String", url |-> "String",
            information |-> "String",
            recommendationContentSpan |-> "ContentSpan",
            mostRelevantMissedAlternative |-> "MostRelevantMissedAlternative"]
      [] s = "FollowupPrompt" -> [content |-> "String", userIntent |-> "UserIntent"]
      [] s = "ProgrammingLanguage" -> [languageName |-> "String"]
      [] s = "Customization" -> [arn |-> "String", name |-> "String"]
      [] s = "CodeQuery" ->
           [codeQueryId |-> "String",
            programmingLanguage |-> "ProgrammingLanguage",
            userInputMessageId |-> "String"]

EmptyObject == [k \in {} |-> JNull]

RECURSIVE SampleValue(_)
\* a well-typed JSON value for a key that holds a t
SampleValue(t) ==
    CASE t = "String" -> JString("a")
      [] t = "i32" -> JInt(1)
      [] t = "f64" -> JFloat(80)
      [] t = "UserIntent" -> JString("IMPROVE_CODE")
      [] OTHER -> JObject([k \in DOMAIN WireShape(t) |-> SampleValue(WireShape(t)[k])])

\* the other values a payload may carry under a key that holds a t
OtherValues(t) ==
    CASE t = "String" -> {JNull, JInt(1)}
      [] t = "i32" -> {JNull, JString("x"), JFloat(150), JWideInt, JInt(I32_MIN)}
      [] t = "f64" -> {JNull, JString("x"), JInt(1)}
      [] t = "UserIntent" -> {JNull, JInt(1), JString("x"), JString("SHOW_EXAMPLES")}
      [] OTHER -> {JNull, JString("x"), JObject(EmptyObject)}

FullObject(s) == SampleValue(s).o

\* the payloads offered to the parser of s: {}, the full object, the full
\* object with an unknown key, with one key left out, and with one key
\* holding each of the other values
WireInputs(s) ==
    LET full == FullObject(s)
        keys == DOMAIN full
    IN  {EmptyObject, full, [k \in keys \cup {"unknown"} |->
                                IF k \in keys THEN full[k] ELSE JInt(1)]}
        \cup {[k \in keys \ {x} |-> full[k]] : x \in keys}
        \cup UNION {{[full EXCEPT ![x] = o] : o \in OtherValues(WireShape(s)[x])} :
                       x \in keys}

(* ------------------------------ state --------------------------------- *)
(* The life of one instance: it is constructed or parsed once, extended by  *)
(* chained with-X calls, queried, serialized and read back.                 *)
(* ty, val   the struct and the instance in hand (val is <<>> when none)    *)
(* base      the instance as its constructor or the parser returned it      *)
(* origin    the call that returned base, with its arguments                *)
(* calls     the with-X calls applied to base since, in order               *)
(* ser       <<>>, or <<j>>: j is what serializing val returned             *)
(* back      <<>>, or <<r>>: r is what deserializing ser returned           *)
(* de        <<>>, or <<[in, res]>>: the payload last parsed as a ty and    *)
(*           the parser's result                                            *)
(* ret       <<>>, or <<r>>: what len() or is_empty() returned for val      *)

Init ==
    /\ ty = "none"
    /\ val = <<>>
    /\ base = <<>>
    /\ origin = [op |-> "none", arg |-> <<>>]
    /\ calls = <<>>
    /\ ser = <<>>
    /\ back = <<>>
    /\ de = <<>>
    /\ ret = <<>>

\* nothing was constructed or parsed yet
Unborn == val = <<>> /\ de = <<>>

\* a constructor of struct s, called as op(arg), returned the instance
Constructed(s, op, arg) ==
    /\ ty' = s
    /\ base' = val'
    /\ origin' = [op |-> op, arg |-> arg]
    /\ UNCHANGED <<calls, ser, back, de, ret>>

\* struct s has an instance in hand and room for one more builder call
Chainable(s) == ty = s /\ val # <<>> /\ Len(calls) < MaxCalls

\* builder method m was called with argument a
Chained(m, a) ==
    /\ calls' = Append(calls, [m |-> m, a |-> a])
    /\ ser' = <<>>
    /\ back' = <<>>
    /\ ret' = <<>>
    /\ UNCHANGED <<ty, base, origin, de>>

NewContentSpan ==
    \E a \in I32Values, b \in I32Values :
        /\ Unborn
        /\ val' = <<ContentSpan_new(a, b)>>
        /\ Constructed("ContentSpan", "ContentSpan::new", <<a, b>>)

SpanLen ==
    /\ ty = "ContentSpan"
    /\ val # <<>>
    /\ \E r \in len(val[1]) : ret' = <<r>>
    /\ UNCHANGED <<ty, val, base, origin, calls, ser, back, de>>

SpanIsEmpty ==
    /\ ty = "ContentSpan"
    /\ val # <<>>
    /\ ret' = <<[op |-> "is_empty", b |-> is_empty(val[1])]>>
    /\ UNCHANGED <<ty, val, base, origin, calls, ser, back, de>>

NewSupplementaryWebLink ==
    \E url \in Strs :
        /\ Unborn
        /\ val' = <<SupplementaryWebLink_new(url)>>
        /\ Constructed("SupplementaryWebLink", "SupplementaryWebLink::new", <<url>>)

WithTitle ==
    \E t \in Strs :
        /\ Chainable("SupplementaryWebLink")
        /\ val' = <<with_title(val[1], t)>>
        /\ Chained("with_title", t)

WithSnippet ==
    \E t \in Strs :
        /\ Chainable("SupplementaryWebLink")
        /\ val' = <<with_snippet(val[1], t)>>
        /\ Chained("with_snippet", t)

WithScore ==
    \E x \in Scores :
        /\ Chainable("SupplementaryWebLink")
        /\ val' = <<with_score(val[1], x)>>
        /\ Chained("with_score", x)

NewMostRelevantMissedAlternative ==
    \E url \in Strs :
        /\ Unborn
        /\ val' = <<MostRelevantMissedAlternative_new(url)>>
        /\ Constructed("MostRelevantMissedAlternative",
                       "MostRelevantMissedAlternative::new", <<url>>)

NewReference ==
    /\ Unborn
    /\ val' = <<Reference_new>>
    /\ Constructed("Reference", "Reference::new", <<>>)

DefaultReference ==
    /\ Unborn
    /\ val' = <<Reference_default>>
    /\ Constructed("Reference", "Reference::default", <<>>)

WithLicenseName ==
    \E n \in Strs :
        /\ Chainable("Reference")
        /\ val' = <<with_license_name(val[1], n)>>
        /\ Chained("with_license_name", n)

WithRepository ==
    \E r \in Strs :
        /\ Chainable("Reference")
        /\ val' = <<with_repository(val[1], r)>>
        /\ Chained("with_repository", r)

WithUrl ==
    \E u \in Strs :
        /\ Chainable("Reference")
        /\ val' = <<with_url(val[1], u)>>
        /\ Chained("with_url", u)

NewFollowupPrompt ==
    \E c \in Strs :
        /\ Unborn
        /\ val' = <<FollowupPrompt_new(c)>>
        /\ Constructed("FollowupPrompt", "FollowupPrompt::new", <<c>>)

WithUserIntent ==
    \E i \in UserIntents :
        /\ Chainable("FollowupPrompt")
        /\ val' = <<with_user_intent(val[1], i)>>
        /\ Chained("with_user_intent", i)

NewProgrammingLanguage ==
    \E n \in Strs :
        /\ Unborn
        /\ val' = <<ProgrammingLanguage_new(n)>>
        /\ Constructed("ProgrammingLanguage", "ProgrammingLanguage::new", <<n>>)

NewCodeQuery ==
    \E q \in Strs :
        /\ Unborn
        /\ val' = <<CodeQuery_new(q)>>
        /\ Constructed("CodeQuery", "CodeQuery::new", <<q>>)

WithProgrammingLanguage ==
    \E n \in Strs :
        /\ Chainable("CodeQuery")
        /\ val' = <<with_programming_language(val[1], ProgrammingLanguage_new(n))>>
        /\ Chained("with_programming_language", ProgrammingLanguage_new(n))

WithUserInputMessageId ==
    \E i \in Strs :
        /\ Chainable("CodeQuery")
        /\ val' = <<with_user_input_message_id(val[1], i)>>
        /\ Chained("with_user_input_message_id", i)

\* serde_json::to_value(&val)
Serialize ==
    /\ val # <<>>
    /\ ser' = <<ToValue(ty, val[1])>>
    /\ back' = <<>>
    /\ UNCHANGED <<ty, val, base, origin, calls, de, ret>>

\* serde_json::from_value::<ty>(ser): the serialized value read back
Deserialize ==
    /\ ser # <<>>
    /\ back' = <<FromValue(ty, ser[1])>>
    /\ UNCHANGED <<ty, val, base, origin, calls, ser, de, ret>>

\* serde_json::from_value::<s>(w) of a payload w: the instance parsed is the
\* one in hand afterwards; a parse error leaves none
Parse ==
    \E s \in Structs : \E w \in WireInputs(s) :
        /\ Unborn
        /\ ty' = s
        /\ de' = <<[in |-> w, res |-> FromValue(s, JObject(w))]>>
        /\ val' = IF de'[1].res.ok THEN <<de'[1].res.v>> ELSE <<>>
        /\ base' = val'
        /\ origin' = [op |-> "from_value", arg |-> <<>>]
        /\ UNCHANGED <<calls, ser, back, ret>>

Next ==
    \/ NewContentSpan
    \/ SpanLen
    \/ SpanIsEmpty
    \/ NewSupplementaryWebLink
    \/ WithTitle
    \/ WithSnippet
    \/ WithScore
    \/ NewMostRelevantMissedAlternative
    \/ NewReference
    \/ DefaultReference
    \/ WithLicenseName
    \/ WithRepository
    \/ WithUrl
    \/ NewFollowupPrompt
    \/ WithUserIntent
    \/ NewProgrammingLanguage
    \/ NewCodeQuery
    \/ WithProgrammingLanguage
    \/ WithUserInputMessageId
    \/ Serialize
    \/ Deserialize
    \/ Parse

Spec == Init /\ [][Next]_vars

(* ===================== the claims' vocabulary ========================= *)

\* the optional fields of each type, as the data model lists them
OptionalFieldsOf(s) ==
    CASE s = "ContentSpan" -> {}
      [] s = "SupplementaryWebLink" -> {"title", "snippet", "score"}
      [] s = "MostRelevantMissedAlternative" -> {"license_name", "repository"}
      [] s = "Reference" ->
           {"license_name", "repository", "url", "information",
            "recommendation_content_span", "most_relevant_missed_alternative"}
      [] s = "FollowupPrompt" -> {"user_intent"}
      [] s = "ProgrammingLanguage" -> {}
      [] s = "Customization" -> {"name"}
      [] s = "CodeQuery" -> {"programming_language", "user_input_message_id"}

\* the fields that hold another of the types
NestedFieldsOf(s) ==
    CASE s = "Reference" ->
           {"recommendation_content_span", "most_relevant_missed_alternative"}
      [] s = "CodeQuery" -> {"programming_language"}
      [] OTHER -> {}

NestedType(f) ==
    CASE f = "recommendation_content_span" -> "ContentSpan"
      [] f = "most_relevant_missed_alternative" -> "MostRelevantMissedAlternative"
      [] f = "programming_language" -> "ProgrammingLanguage"

\* the camelCase spelling of each field name, written out
CamelKeyOf(f) ==
    CASE f = "license_name" -> "licenseName"
      [] f = "recommendation_content_span" -> "recommendationContentSpan"
      [] f = "most_relevant_missed_alternative" -> "mostRelevantMissedAlternative"
      [] f = "user_intent" -> "userIntent"
      [] f = "language_name" -> "languageName"
      [] f = "code_query_id" -> "codeQueryId"
      [] f = "programming_language" -> "programmingLanguage"
      [] f = "user_input_message_id" -> "userInputMessageId"
      [] OTHER -> f

\* the keys a payload must carry to parse as an s
RequiredKeysOf(s) ==
    CASE s = "ContentSpan" -> {"start", "end"}
      [] s = "SupplementaryWebLink" -> {"url"}
      [] s = "MostRelevantMissedAlternative" -> {"url"}
      [] s = "Reference" -> {}
      [] s = "FollowupPrompt" -> {"content"}
      [] s = "ProgrammingLanguage" -> {"languageName"}
      [] s = "Customization" -> {"arn"}
      [] s = "CodeQuery" -> {"codeQueryId"}

\* the JSON kinds that are of type t
KindsOf(t) ==
    CASE t = "String" -> {"string"}
      [] t = "i32" -> {"int"}
      [] t = "f64" -> {"int", "float"}
      [] t = "UserIntent" -> {"string"}
      [] OTHER -> {"object"}

\* the optional field each builder method sets
BuilderField(m) ==
    CASE m = "with_title" -> "title"
      [] m = "with_snippet" -> "snippet"
      [] m = "with_score" -> "score"
      [] m = "with_license_name" -> "license_name"
      [] m = "with_repository" -> "repository"
      [] m = "with_url" -> "url"
      [] m = "with_user_intent" -> "user_intent"
      [] m = "with_programming_language" -> "programming_language"
      [] m = "with_user_input_message_id" -> "user_input_message_id"

\* one builder call, by the method's name
Apply(self, c) ==
    CASE c.m = "with_title" -> with_title(self, c.a)
      [] c.m = "with_snippet" -> with_snippet(self, c.a)
      [] c.m = "with_score" -> with_score(self, c.a)
      [] c.m = "with_license_name" -> with_license_name(self, c.a)
      [] c.m = "with_repository" -> with_repository(self, c.a)
      [] c.m = "with_url" -> with_url(self, c.a)
      [] c.m = "with_user_intent" -> with_user_intent(self, c.a)
      [] c.m = "with_programming_language" -> with_programming_language(self, c.a)
      [] c.m = "with_user_input_message_id" -> with_user_input_message_id(self, c.a)

RECURSIVE Replay(_, _)
\* the builder calls cs applied to v, first to last
Replay(v, cs) == IF cs = <<>> THEN v ELSE Replay(Apply(v, Head(cs)), Tail(cs))

\* a with-X call was just applied
BuilderStep == Len(calls') = Len(calls) + 1

(* ============================== claims ================================ *)

\* C1: round trip -- deserializing what serializing an instance returned
\* succeeds and gives back the instance, field for field, absent fields
\* absent.
C1_RoundTrip == back # <<>> => (back[1].ok /\ back[1].v = val[1])

\* C2: omission law -- the serialized object holds the key of an optional
\* field exactly when the field is present, in the object itself and in the
\* objects nested in it; an absent field's key is not there at all.
C2_OmissionLaw ==
    ser # <<>> =>
        LET Holds(s, v, o) ==
                \A f \in OptionalFieldsOf(s) : (CamelKeyOf(f) \in DOMAIN o) <=> (v[f] # <<>>)
        IN  /\ Holds(ty, val[1], ser[1].o)
            /\ \A f \in NestedFieldsOf(ty) :
                   val[1][f] # <<>> =>
                       Holds(NestedType(f), val[1][f][1], ser[1].o[CamelKeyOf(f)].o)

\* the claim's example: url, title and score emitted, no snippet key
C2_Witness ==
    /\ ser # <<>>
    /\ ty = "SupplementaryWebLink"
    /\ val[1].title # <<>>
    /\ val[1].score # <<>>
    /\ val[1].snippet = <<>>
    /\ DOMAIN ser[1].o = {"url", "title", "score"}

\* the JSON kinds allowed under key k of an s: those of the key's type and,
\* when nullable is set and the key is optional, null
AllowedKinds(s, k, nullable) ==
    IF nullable /\ k \notin RequiredKeysOf(s)
    THEN KindsOf(WireShape(s)[k]) \cup {"null"}
    ELSE KindsOf(WireShape(s)[k])

\* a required key is missing from payload w, or a key of w holds a value
\* whose kind is not allowed for it
Malformed(s, w, nullable) ==
    \/ \E k \in RequiredKeysOf(s) : k \notin DOMAIN w
    \/ \E k \in DOMAIN w \cap DOMAIN WireShape(s) :
           w[k].t \notin AllowedKinds(s, k, nullable)

C4_IsEmptyIffNotBefore ==
    (ret # <<>> /\ ret[1].op = "is_empty") =>
        /\ val[1].start < val[1].end => ~ret[1].b
        /\ val[1].start = val[1].end => ret[1].b
        /\ val[1].start > val[1].end => ret[1].b

\* an inverted span was constructed and reported empty
C4_Witness ==
    /\ ret # <<>>
    /\ ret[1].op = "is_empty"
    /\ val[1].start > val[1].end
    /\ ret[1].b

\* C5: len() returns the mathematical difference end - start for every pair
\* of 32-bit inputs: it never aborts, and the difference it returns is the
\* true one (which, being an i32, requires that the difference fits).
C5_LenIsDifference ==
    (ret # <<>> /\ ret[1].op = "len") =>
        LET a == val[1].start
            b == val[1].end
        IN  /\ ~ret[1].panicked
            /\ a >= 0 => b >= I32_MIN + a
            /\ a < 0 => b <= I32_MAX + a
            /\ ret[1].n = b - a

\* C6: builder reordering -- when each with-X was called at most once, the
\* same calls applied to the same starting instance in any other order give
\* the instance in hand.
C6_OrderIrrelevant ==
    (val # <<>> /\ \A i, j \in 1..Len(calls) : calls[i].m = calls[j].m => i = j) =>
        \A p \in Permutations(1..Len(calls)) :
            Replay(base[1], [i \in 1..Len(calls) |-> calls[p[i]]]) = val[1]

\* title, snippet and score were each set once on a web link
C6_Witness ==
    /\ ty = "SupplementaryWebLink"
    /\ val # <<>>
    /\ {calls[i].m : i \in 1..Len(calls)} = {"with_title", "with_snippet", "with_score"}
    /\ Len(calls) = 3

\* C7: every key of a serialized object, and of the objects nested in it, is
\* the camelCase spelling of a field of the value it serializes, and every
\* required field's key is there; a ProgrammingLanguage serializes to the
\* one key languageName holding its name.
C7_CamelCaseKeys ==
    ser # <<>> =>
        LET Holds(s, v, o) ==
                /\ DOMAIN o \subseteq {CamelKeyOf(f) : f \in DOMAIN v}
                /\ \A f \in DOMAIN v \ OptionalFieldsOf(s) : CamelKeyOf(f) \in DOMAIN o
        IN  /\ Holds(ty, val[1], ser[1].o)
            /\ \A f \in NestedFieldsOf(ty) :
                   val[1][f] # <<>> =>
                       /\ CamelKeyOf(f) \in DOMAIN ser[1].o
                       /\ ser[1].o[CamelKeyOf(f)].t = "object"
                       /\ Holds(NestedType(f), val[1][f][1], ser[1].o[CamelKeyOf(f)].o)
            /\ ty = "ProgrammingLanguage" =>
                   /\ DOMAIN ser[1].o = {"languageName"}
                   /\ ser[1].o["languageName"] = [t |-> "string", s |-> val[1].language_name]

\* a code query with its language and message id was serialized
C7_Witness ==
    /\ ser # <<>>
    /\ ty = "CodeQuery"
    /\ DOMAIN ser[1].o = {"codeQueryId", "programmingLanguage", "userInputMessageId"}
    /\ DOMAIN ser[1].o["programmingLanguage"].o = {"languageName"}

\* C8: a constructor returns an instance that holds its argument unchanged
\* and has every optional field absent; Reference::new() and
\* Reference::default() return the same all-absent value.
C8_ConstructorsAllAbsent ==
    (val # <<>> /\ calls = <<>> /\ origin.op # "from_value") =>
        LET allAbsent ==
                [license_name |-> <<>>, repository |-> <<>>, url |-> <<>>,
                 information |-> <<>>, recommendation_content_span |-> <<>>,
                 most_relevant_missed_alternative |-> <<>>]
        IN  CASE origin.op = "SupplementaryWebLink::new" ->
                   val[1] = [url |-> origin.arg[1], title |-> <<>>,
                             snippet |-> <<>>, score |-> <<>>]
              [] origin.op = "MostRelevantMissedAlternative::new" ->
                   val[1] = [url |-> origin.arg[1], license_name |-> <<>>,
                             repository |-> <<>>]
              [] origin.op = "Reference::new" -> val[1] = allAbsent
              [] origin.op = "Reference::default" -> val[1] = allAbsent
              [] origin.op = "FollowupPrompt::new" ->
                   val[1] = [content |-> origin.arg[1], user_intent |-> <<>>]
              [] origin.op = "ProgrammingLanguage::new" ->
                   val[1] = [language_name |-> origin.arg[1]]
              [] origin.op = "CodeQuery::new" ->
                   val[1] = [code_query_id |-> origin.arg[1],
                             programming_language |-> <<>>,
                             user_input_message_id |-> <<>>]
              [] origin.op = "ContentSpan::new" ->
                   val[1] = [start |-> origin.arg[1], end |-> origin.arg[2]]

\* Reference::default() has just returned
C8_Witness ==
    /\ origin.op = "Reference::default"
    /\ calls = <<>>
    /\ val # <<>>
    /\ \A f \in DOMAIN val[1] : val[1][f] = <<>>

\* C9: a with-X call sets its own field to the argument and leaves every
\* other field of the instance as it was.
C9_BuilderFrame ==
    [][BuilderStep =>
          LET c == calls'[Len(calls')]
              f == BuilderField(c.m)
          IN  /\ val' # <<>>
              /\ ty' = ty
              /\ DOMAIN val'[1] = DOMAIN val[1]
              /\ val'[1][f] = <<c.a>>
              /\ \A g \in DOMAIN val[1] \ {f} : val'[1][g] = val[1][g]]_vars

\* with_license_name was called on a reference whose other five fields were
\* all present, and they still are
C9_Witness ==
    /\ ty = "Reference"
    /\ calls # <<>>
    /\ calls[Len(calls)].m = "with_license_name"
    /\ \A f \in DOMAIN val[1] : val[1][f] # <<>>
    /\ \A f \in DOMAIN val[1] \ {"license_name"} : val[1][f] = base[1][f]

\* the optional fields of struct s that have a with-X method
BuilderFieldsOf(s) ==
    CASE s = "SupplementaryWebLink" -> {"title", "snippet", "score"}
      [] s = "Reference" -> {"license_name", "repository", "url"}
      [] s = "FollowupPrompt" -> {"user_intent"}
      [] s = "CodeQuery" -> {"programming_language", "user_input_message_id"}
      [] OTHER -> {}

\* each builder field holds the argument of the latest call for it, or what
\* the starting instance held when there was no call
LastWriteWins ==
    val # <<>> =>
        \A f \in BuilderFieldsOf(ty) :
            LET at == {i \in 1..Len(calls) : BuilderField(calls[i].m) = f}
            IN  val[1][f] = IF at = {} THEN base[1][f]
                            ELSE <<calls[CHOOSE i \in at : \A j \in at : j <= i].a>>

\* a call that repeats the call before it changes nothing
RepeatIsNoOp ==
    \A n \in 2..Len(calls) :
        (calls[n].m = calls[n - 1].m /\ calls[n].a = calls[n - 1].a) =>
            Replay(base[1], SubSeq(calls, 1, n)) = Replay(base[1], SubSeq(calls, 1, n - 1))

\* C10: with-X on a field already present overwrites it (last write wins);
\* a present field never becomes absent through a builder call; the same
\* call twice equals the call once.
C10_LastWriteWins ==
    /\ [](LastWriteWins /\ RepeatIsNoOp)
    /\ [][BuilderStep =>
             \A f \in OptionalFieldsOf(ty) : val[1][f] # <<>> => val'[1][f] # <<>>]_vars

\* a field was set twice with different arguments
C10_Witness ==
    \E i, j \in 1..Len(calls) :
        /\ i < j
        /\ calls[i].m = calls[j].m
        /\ calls[i].a # calls[j].a
        /\ val[1][BuilderField(calls[j].m)] = <<calls[j].a>>

====
